---- MODULE Spec2Model ----
(***************************************************************************)
(* Voice emotion recognition service (app/main.py): the startup hook that  *)
(* loads the classifier, the /health and / reporters, and POST /predict    *)
(* with its ephemeral file and its normalisation of the classifier output. *)
(*                                                                         *)
(* Texts are sequences of one-character strings, so that strip() and       *)
(* lower() are computed character by character.  Scores are integers in    *)
(* hundredths (0.82 is 82, 0.25 is 25); float() of a number keeps its      *)
(* value, float() of anything else raises.                                 *)
(***************************************************************************)
EXTENDS Integers, Sequences, FiniteSets, TLC

VARIABLES started, classifier, files, req, healthResp, rootResp

vars == <<started, classifier, files, req, healthResp, rootResp>>

(***************************************************************************)
(* Bounds of the model.                                                    *)
(***************************************************************************)
NumRequests == 2
MaxFiles == 3
MaxVecLen == 5

Requests == 1..NumRequests
TempNames == 1..MaxFiles

(***************************************************************************)
(* Python text operations.                                                 *)
(***************************************************************************)
UpperChars == <<"A","B","C","D","E","F","G","H","I","J","K","L","M",
                "N","O","P","Q","R","S","T","U","V","W","X","Y","Z">>
LowerChars == <<"a","b","c","d","e","f","g","h","i","j","k","l","m",
                "n","o","p","q","r","s","t","u","v","w","x","y","z">>

Whitespace == {" "}
StripChars == {"[", "]", "'", "\""}

LowerChar(c) ==
  IF \E i \in 1..Len(UpperChars) : UpperChars[i] = c
  THEN LowerChars[CHOOSE i \in 1..Len(UpperChars) : UpperChars[i] = c]
  ELSE c

\* str.lower()
PyLower(s) == [i \in 1..Len(s) |-> LowerChar(s[i])]

RECURSIVE LStrip(_, _)
LStrip(s, chars) ==
  IF s # <<>> /\ Head(s) \in chars THEN LStrip(Tail(s), chars) ELSE s

RECURSIVE RStrip(_, _)
RStrip(s, chars) ==
  IF s # <<>> /\ s[Len(s)] \in chars
  THEN RStrip(SubSeq(s, 1, Len(s) - 1), chars) ELSE s

\* str.strip(chars); str.strip() is PyStrip(s, Whitespace)
PyStrip(s, chars) == RStrip(LStrip(s, chars), chars)

\* emotion_raw.strip().strip("[]'\"")
CleanLabel(s) == PyStrip(PyStrip(s, Whitespace), StripChars)

(***************************************************************************)
(* Labels and the short-code table.                                        *)
(***************************************************************************)
Angry == <<"a","n","g","r","y">>
Happy == <<"h","a","p","p","y">>
Neutral == <<"n","e","u","t","r","a","l">>
Sad == <<"s","a","d">>

EMOTION_LABELS == <<Angry, Happy, Neutral, Sad>>

LabelSet == {EMOTION_LABELS[i] : i \in 1..Len(EMOTION_LABELS)}

emotion_mapping ==
  { << <<"h","a","p">>, Happy >>,
    << <<"s","a","d">>, Sad >>,
    << <<"a","n","g">>, Angry >>,
    << <<"n","e","u">>, Neutral >>,
    << <<"e","x","c">>, Happy >>,
    << <<"f","r","u">>, Sad >>,
    << <<"f","e","a">>, Sad >>,
    << <<"s","u","r">>, Happy >>,
    << <<"x","x","x">>, Neutral >> }

\* dict.get(key, default)
MappingGet(key, default) ==
  IF \E p \in emotion_mapping : p[1] = key
  THEN (CHOOSE p \in emotion_mapping : p[1] = key)[2]
  ELSE default

MapEmotionNoDefault(emotion_raw) ==
  IF emotion_raw \in LabelSet
  THEN emotion_raw
  ELSE MappingGet(PyLower(emotion_raw), emotion_raw)

\* lines 138-146: direct match, then the table on the lowercased text, then
\* the neutral default
MapEmotion(emotion_raw) ==
  LET emotion == IF emotion_raw \in LabelSet
                 THEN emotion_raw
                 ELSE MappingGet(PyLower(emotion_raw), emotion_raw)
  IN  IF emotion \notin LabelSet THEN Neutral ELSE emotion

(***************************************************************************)
(* Values returned by classifier.classify_file.                            *)
(*   text_lab : [kind, elems]  kind "item"  - has .item(), which returns   *)
(*                                            elems[1]                     *)
(*                             kind "seq"   - a list or tuple of elems     *)
(*                             kind "other" - any other object, elems[1]   *)
(*              an element is [t, s]: t "str" is the text s, t "list" is   *)
(*              the one-element list [s], t "int" is the integer written s *)
(*   score    : [kind, t, v]   kind "item" has .item(); t "num" is the     *)
(*                             number v, t "none" is None                  *)
(*   out_prob : [kind, shape, data]  kind "tensor" has .numpy(), kind      *)
(*              "tensor_grad" has a .numpy() that raises, kind "other" is  *)
(*              None or a plain list                                       *)
(***************************************************************************)
\* str(x)
PyStr(e) ==
  IF e.t = "list" THEN <<"[", "'">> \o e.s \o <<"'", "]">> ELSE e.s

\* lines 115-120: the value bound to emotion_raw
ExtractLabel(text_lab) ==
  IF text_lab.kind = "item" THEN text_lab.elems[1].s
  ELSE IF text_lab.kind = "seq"
       THEN IF Len(text_lab.elems) > 0 THEN PyStr(text_lab.elems[1]) ELSE Neutral
       ELSE PyStr(text_lab.elems[1])

\* line 123 raises AttributeError when .item() returned something that is no str
LabelRaises(text_lab) ==
  text_lab.kind = "item" /\ text_lab.elems[1].t # "str"

\* lines 149-152: float(score.item()) or float(score) raises TypeError on None
ConfidenceRaises(score) == score.t # "num"

Confidence(score) == score.v

NotOne(d) == d # 1

\* ndarray.squeeze(): the axes of length one are dropped
Squeeze(a) == [shape |-> SelectSeq(a.shape, NotOne), data |-> a.data]

Uniform == [shape |-> <<Len(EMOTION_LABELS)>>,
            data |-> [i \in 1..Len(EMOTION_LABELS) |-> 25]]

\* lines 155-161; the isinstance(out_prob, torch.Tensor) branch is never taken,
\* a Tensor has .numpy
ScoresArrayRaises(out_prob) == out_prob.kind = "tensor_grad"

ScoresArray(out_prob) ==
  IF out_prob.kind = "tensor"
  THEN Squeeze([shape |-> out_prob.shape, data |-> out_prob.data])
  ELSE Uniform

RECURSIVE Product(_)
Product(s) == IF s = <<>> THEN 1 ELSE Head(s) * Product(Tail(s))

\* len(scores_array) raises TypeError on a 0-d array; float(scores_array[i])
\* raises TypeError when scores_array[i] is an array of other than one element
BuildScoresRaises(arr) ==
  \/ arr.shape = <<>>
  \/ /\ Len(arr.shape) >= 2
     /\ arr.shape[1] >= 1
     /\ Product(Tail(arr.shape)) # 1

LabelIndex(label) == CHOOSE i \in 1..Len(EMOTION_LABELS) : EMOTION_LABELS[i] = label

BuildScoresOffByOne(arr) ==
  [label \in LabelSet |->
     LET i == LabelIndex(label)
     IN  IF i < arr.shape[1]
         THEN arr.data[(i - 1) * Product(Tail(arr.shape)) + 1]
         ELSE 0]

\* lines 164-169; i is enumerate's index plus one
BuildScores(arr) ==
  [label \in LabelSet |->
     LET i == LabelIndex(label)
     IN  IF i - 1 < arr.shape[1]
         THEN arr.data[(i - 1) * Product(Tail(arr.shape)) + 1]
         ELSE 0]

NoScores == [label \in {} |-> 0]

Raised(msg) ==
  [ok |-> FALSE, msg |-> msg, emotion |-> <<>>, confidence |-> 0, scores |-> NoScores]

\* lines 111-177: the body of the inner try, to its return value or to the
\* exception it raises
InnerTry(out) ==
  IF out.raises THEN Raised(out.msg)
  ELSE IF LabelRaises(out.text_lab) THEN Raised("object has no attribute 'strip'")
  ELSE IF ConfidenceRaises(out.score) THEN Raised("float() argument must be a real number")
  ELSE IF ScoresArrayRaises(out.out_prob) THEN Raised("Can't call numpy() on Tensor that requires grad")
  ELSE IF BuildScoresRaises(ScoresArray(out.out_prob))
       THEN IF ScoresArray(out.out_prob).shape = <<>>
            THEN Raised("len() of unsized object")
            ELSE Raised("only length-1 arrays can be converted to Python scalars")
  ELSE [ok |-> TRUE, msg |-> "",
        emotion |-> MapEmotion(CleanLabel(ExtractLabel(out.text_lab))),
        confidence |-> Confidence(out.score),
        scores |-> BuildScores(ScoresArray(out.out_prob))]

(***************************************************************************)
(* The classifier outputs the model draws from.                            *)
(***************************************************************************)
UpperChar(c) ==
  IF \E i \in 1..Len(LowerChars) : LowerChars[i] = c
  THEN UpperChars[CHOOSE i \in 1..Len(LowerChars) : LowerChars[i] = c]
  ELSE c

AllUpper(s) == [i \in 1..Len(s) |-> UpperChar(s[i])]

Capitalized(s) == [i \in 1..Len(s) |-> IF i = 1 THEN UpperChar(s[i]) ELSE s[i]]

ShortCodes == {p[1] : p \in emotion_mapping}

BaseWords ==
  LabelSet \cup ShortCodes
    \cup { <<"x","y","z">>, <<>>, <<"h","a","p","p","y","y">>, <<"j","o","y">> }

CasedWords == BaseWords \cup {AllUpper(w) : w \in BaseWords}
                        \cup {Capitalized(w) : w \in BaseWords}

Wrappers ==
  { << <<>>, <<>> >>,
    << <<"[", "'">>, <<"'", "]">> >>,
    << <<"[">>, <<"]">> >>,
    << <<"'">>, <<"'">> >>,
    << <<"\"">>, <<"\"">> >>,
    << <<" ">>, <<" ">> >>,
    << <<" ", "[", "'">>, <<"'", "]", " ">> >>,
    << <<"[", " ">>, <<" ", "]">> >> }

RawTexts == {w[1] \o c \o w[2] : w \in Wrappers, c \in CasedWords}

StrElem(s) == [t |-> "str", s |-> s]

TextLabs ==
  {[kind |-> k, elems |-> <<StrElem(s)>>] : k \in {"item", "seq", "other"}, s \in RawTexts}
    \cup {[kind |-> k, elems |-> <<[t |-> "list", s |-> w]>>] :
            k \in {"seq", "other"}, w \in BaseWords}
    \cup {[kind |-> "seq", elems |-> <<StrElem(v), StrElem(w)>>] :
            v \in ShortCodes, w \in LabelSet}
    \cup {[kind |-> "seq", elems |-> <<>>],
          [kind |-> "item", elems |-> <<[t |-> "int", s |-> <<"2">>]>>],
          [kind |-> "other", elems |-> <<[t |-> "int", s |-> <<"2">>]>>]}

ScoreVals == {5, 8, 82}

Vectors == UNION {[1..k -> ScoreVals] : k \in 0..MaxVecLen}

Tensor(shape, data) == [kind |-> "tensor", shape |-> shape, data |-> data]

OutProbs ==
  {Tensor(<<Len(v)>>, v) : v \in Vectors}
    \cup {Tensor(<<1, Len(v)>>, v) : v \in Vectors}
    \cup {Tensor(<<2, 2>>, v) : v \in {w \in Vectors : Len(w) = 4}}
    \cup {Tensor(<<2, 0>>, <<>>), Tensor(<<0, 2>>, <<>>), Tensor(<<1, 1, 1>>, <<82>>),
          Tensor(<<>>, <<82>>)}
    \cup {[kind |-> "tensor_grad", shape |-> <<1, 4>>, data |-> <<82, 5, 8, 5>>],
          [kind |-> "other", shape |-> <<>>, data |-> <<>>],
          [kind |-> "other", shape |-> <<4>>, data |-> <<82, 5, 8, 5>>]}

Scores ==
  {[kind |-> k, t |-> "num", v |-> v] : k \in {"item", "plain"}, v \in {0, 82, 100}}
    \cup {[kind |-> "plain", t |-> "none", v |-> 0]}

HapLab == [kind |-> "seq", elems |-> <<StrElem(<<"h","a","p">>)>>]
TopScore == [kind |-> "item", t |-> "num", v |-> 82]
ScenarioProb == Tensor(<<1, 4>>, <<82, 5, 8, 5>>)

Returns(out_prob, score, text_lab) ==
  [raises |-> FALSE, msg |-> "", out_prob |-> out_prob, score |-> score,
   text_lab |-> text_lab]

Raises(msg) ==
  [raises |-> TRUE, msg |-> msg, out_prob |-> ScenarioProb, score |-> TopScore,
   text_lab |-> HapLab]

\* every output, one component varied at a time
ClassifierOutputs ==
  {Returns(ScenarioProb, TopScore, l) : l \in TextLabs}
    \cup {Returns(p, TopScore, HapLab) : p \in OutProbs}
    \cup {Returns(ScenarioProb, sc, HapLab) : sc \in Scores}
    \cup {Raises("inference error")}

\* the outputs drawn while requests run concurrently
ServiceOutputs ==
  {Returns(ScenarioProb, TopScore, HapLab),
   Returns(Tensor(<<1, 1>>, <<82>>), TopScore, HapLab),
   Raises("inference error")}

(***************************************************************************)
(* Responses.                                                              *)
(***************************************************************************)
NoResponse ==
  [status |-> 0, detail |-> <<"", "">>, emotion |-> <<>>, confidence |-> 0,
   scores |-> NoScores]

\* raise HTTPException(status_code=..., detail=...); detail is <<head, rest>>,
\* the text being head followed by rest
HTTPException(status_code, detail) ==
  [status |-> status_code, detail |-> detail, emotion |-> <<>>, confidence |-> 0,
   scores |-> NoScores]

\* lines 93-97
ModelNotLoadedError ==
  HTTPException(503, <<"Model not loaded", ". Service is initializing or failed to load model.">>)

\* lines 184-189: except Exception as e
PredictionFailed(msg) == HTTPException(500, <<"Prediction failed: ", msg>>)

\* lines 173-177
Ok200(result) ==
  [status |-> 200, detail |-> <<"", "">>, emotion |-> result.emotion,
   confidence |-> result.confidence, scores |-> result.scores]

\* what leaves the try/finally of lines 108-180: the return value or the
\* exception of the body when os.unlink returns, the exception of os.unlink
\* when it raises
AfterFinally(result, unlinkOk) ==
  IF ~unlinkOk THEN PredictionFailed("unlink failed")
  ELSE IF result.ok THEN Ok200(result)
  ELSE PredictionFailed(result.msg)

NoHealth == [code |-> 0, status |-> "", model_loaded |-> FALSE, service |-> ""]

NoRoot == [code |-> 0, service |-> "", version |-> "", model_loaded |-> FALSE]

\* line 93; lines 72 and 202 report its negation
ModelNotLoadedNever == FALSE

ModelNotLoaded == classifier = "None"

ModelLoadedOnceStarted == started

ModelLoaded == classifier # "None"

(***************************************************************************)
(* State.  req[r] is request slot r of POST /predict: where its handler    *)
(* stands (pc), its temp_path (0 before line 106), and what it has done:   *)
(* the files it created and removed, the calls it made (did), the          *)
(* classifier output it got (out, <<>> or <<output>>), whether its         *)
(* os.unlink raised, and its response.                                     *)
(***************************************************************************)
IdleReq ==
  [pc |-> "idle", temp_path |-> 0, created |-> {}, removed |-> {}, did |-> {},
   out |-> <<>>, unlinkFailed |-> FALSE, resp |-> NoResponse]

Init ==
  /\ started = FALSE
  /\ classifier = "None"
  /\ files = {}
  /\ req = [r \in Requests |-> IdleReq]
  /\ healthResp = NoHealth
  /\ rootResp = NoRoot

\* lines 40-64: the startup hook; the load succeeds or raises
LoadModel ==
  /\ ~started
  /\ started' = TRUE
  /\ \E loaded \in BOOLEAN : classifier' = IF loaded THEN "model" ELSE "None"
  /\ UNCHANGED <<files, req, healthResp, rootResp>>

\* lines 67-74
HealthCheck ==
  /\ started
  /\ healthResp' = [code |-> 200, status |-> "healthy", model_loaded |-> ModelLoaded,
                    service |-> "voice-emotion-recognition"]
  /\ UNCHANGED <<started, classifier, files, req, rootResp>>

\* lines 192-203
Root ==
  /\ started
  /\ rootResp' = [code |-> 200, service |-> "Voice Emotion Recognition API",
                  version |-> "1.0.0", model_loaded |-> ModelLoaded]
  /\ UNCHANGED <<started, classifier, files, req, healthResp>>

Finish(r, resp) == [req[r] EXCEPT !.pc = "done", !.resp = resp]

\* lines 93-101: the model-loaded check, up to the await of the upload
PredictStart(r) ==
  /\ started
  /\ req[r].pc = "idle"
  /\ req' = [req EXCEPT ![r] =
               IF ModelNotLoaded THEN Finish(r, ModelNotLoadedError)
               ELSE [req[r] EXCEPT !.pc = "reading"]]
  /\ UNCHANGED <<started, classifier, files, healthResp, rootResp>>

\* line 101: audio_file.read() returns or raises
PredictRead(r) ==
  /\ req[r].pc = "reading"
  /\ \E readOk \in BOOLEAN :
       req' = [req EXCEPT ![r] =
                 IF readOk
                 THEN [req[r] EXCEPT !.pc = "write", !.did = @ \cup {"read"}]
                 ELSE [Finish(r, PredictionFailed("read error"))
                         EXCEPT !.did = @ \cup {"read"}]]
  /\ UNCHANGED <<started, classifier, files, healthResp, rootResp>>

\* lines 104-106: NamedTemporaryFile(delete=False) creates a file under a name
\* no file has, or raises; write() returns or raises; leaving the with block
\* closes the file and keeps it
PredictWrite(r) ==
  /\ req[r].pc = "write"
  /\ \/ /\ req' = [req EXCEPT ![r] = Finish(r, PredictionFailed("cannot create file"))]
        /\ files' = files
     \/ \E name \in TempNames \ files : \E writeOk \in BOOLEAN :
          /\ files' = files \cup {name}
          /\ req' = [req EXCEPT ![r] =
                       IF writeOk
                       THEN [req[r] EXCEPT !.pc = "infer", !.temp_path = name,
                                           !.created = {name}, !.did = @ \cup {"create"}]
                       ELSE [Finish(r, PredictionFailed("No space left on device"))
                               EXCEPT !.created = {name}, !.did = @ \cup {"create"}]]
  /\ UNCHANGED <<started, classifier, healthResp, rootResp>>

\* lines 108-189: classify_file, the normalisation, os.unlink in the finally
\* clause (it removes the file or raises and leaves it), and the response
PredictInfer(r, outputs) ==
  /\ req[r].pc = "infer"
  /\ \E out \in outputs : \E unlinkOk \in BOOLEAN :
       /\ files' = IF unlinkOk THEN files \ {req[r].temp_path} ELSE files
       /\ req' = [req EXCEPT ![r] =
                    [Finish(r, AfterFinally(InnerTry(out), unlinkOk))
                       EXCEPT !.out = <<out>>,
                              !.did = @ \cup {"classify"},
                              !.removed = IF unlinkOk THEN {req[r].temp_path} ELSE {},
                              !.unlinkFailed = ~unlinkOk]]
  /\ UNCHANGED <<started, classifier, healthResp, rootResp>>

\* the response has been sent; the slot takes the next request
PredictReturn(r) ==
  /\ req[r].pc = "done"
  /\ req' = [req EXCEPT ![r] = IdleReq]
  /\ UNCHANGED <<started, classifier, files, healthResp, rootResp>>

Next ==
  \/ LoadModel
  \/ HealthCheck
  \/ Root
  \/ \E r \in Requests : PredictStart(r)
  \/ \E r \in Requests : PredictRead(r)
  \/ \E r \in Requests : PredictWrite(r)
  \/ \E r \in Requests : PredictInfer(r, ServiceOutputs)
  \/ \E r \in Requests : PredictReturn(r)

\* the service under concurrent requests
Spec == Init /\ [][Next]_vars

NextOne ==
  \/ LoadModel
  \/ PredictStart(1)
  \/ PredictRead(1)
  \/ PredictWrite(1)
  \/ PredictInfer(1, ClassifierOutputs)
  \/ PredictReturn(1)

\* one request at a time, over every classifier output
SpecNormalize == Init /\ [][NextOne]_vars

(***************************************************************************)
(* Properties.                                                             *)
(***************************************************************************)
Completes(r) == req[r].pc # "done" /\ req'[r].pc = "done"

\* C1: when a POST /predict that passed the model-loaded check and created an
\* ephemeral file completes (200 or any error, a failed write of the upload
\* included), the file it created no longer exists, and it has removed no file
\* but its own.
C1_EphemeralFileDeleted ==
  [][\A r \in Requests :
       (Completes(r) /\ req'[r].created # {}) =>
         /\ req'[r].created \cap files' = {}
         /\ req'[r].removed \subseteq req'[r].created]_vars

\* C2: with the classifier handle unset, POST /predict answers 503 with a
\* detail that begins "Model not loaded" and does nothing else: the upload is
\* not read, no file is created, the classifier is not invoked.
C2_Unloaded503 ==
  \A r \in Requests :
    (started /\ classifier = "None" /\ req[r].pc # "idle") =>
      /\ req[r].pc = "done"
      /\ req[r].resp.status = 503
      /\ req[r].resp.detail[1] = "Model not loaded"
      /\ req[r].did = {}
      /\ req[r].created = {}
      /\ req[r].out = <<>>
      /\ files = {}

C2_Witness ==
  \E r \in Requests :
    started /\ classifier = "None" /\ req[r].pc = "done" /\ req[r].resp.status = 503

HealthBody(loaded) ==
  [code |-> 200, status |-> "healthy", model_loaded |-> loaded,
   service |-> "voice-emotion-recognition"]

\* C8: once startup has finished no request changes the classifier handle;
\* after a failed load every /health answer is 200 {healthy, model_loaded
\* false, voice-emotion-recognition} and every completed POST /predict is a
\* 503; the model_loaded that /health and / report is whether the handle is
\* set.
C8_HandleWrittenAtStartupOnly ==
  /\ [][started => (classifier' = classifier /\ started')]_vars
  /\ [](~started => (classifier = "None" /\ healthResp = NoHealth /\ rootResp = NoRoot))
  /\ [](healthResp # NoHealth => healthResp = HealthBody(classifier # "None"))
  /\ [](rootResp # NoRoot =>
          (rootResp.code = 200 /\ rootResp.model_loaded = (classifier # "None")))
  /\ []((started /\ classifier = "None") =>
          \A r \in Requests : req[r].pc = "done" => req[r].resp.status = 503)

C8_Witness ==
  /\ started
  /\ classifier = "None"
  /\ healthResp = HealthBody(FALSE)
  /\ rootResp.code = 200
  /\ \E r \in Requests : req[r].pc = "done" /\ req[r].resp.status = 503

\* a completed request that got a classifier output and whose os.unlink returned
Inferred(r) ==
  req[r].pc = "done" /\ req[r].out # <<>> /\ ~req[r].unlinkFailed

\* the raw label of request r is the text raw, in any of the three shapes
RawLabelIs(r, raw) ==
  /\ ~req[r].out[1].raises
  /\ req[r].out[1].text_lab.elems = <<[t |-> "str", s |-> raw]>>

HappyCodes == { <<"h","a","p">>, <<"e","x","c">>, <<"s","u","r">> }
SadCodes == { <<"s","a","d">>, <<"f","r","u">>, <<"f","e","a">> }
AngryCodes == { <<"a","n","g">> }
NeutralCodes == { <<"n","e","u">>, <<"x","x","x">> }
KnownCodes == HappyCodes \cup SadCodes \cup AngryCodes \cup NeutralCodes
Canonical == {Angry, Happy, Neutral, Sad}

\* the emotion the label table gives a canonical label or a known short code
TableEmotion(w) ==
  IF w \in Canonical THEN w
  ELSE IF w \in HappyCodes THEN Happy
  ELSE IF w \in SadCodes THEN Sad
  ELSE IF w \in AngryCodes THEN Angry
  ELSE Neutral

\* C3 as stated: a raw label equal to a canonical label is returned as it is, a
\* known short code gives its table value, and every other raw text gives
\* neutral; the emotion returned is always canonical.
C3_LabelMappingAsStated ==
  \A r \in Requests : \A raw \in RawTexts :
    (Inferred(r) /\ RawLabelIs(r, raw) /\ req[r].resp.status = 200) =>
      /\ req[r].resp.emotion \in Canonical
      /\ raw \in Canonical \cup KnownCodes => req[r].resp.emotion = TableEmotion(raw)
      /\ raw \notin Canonical \cup KnownCodes => req[r].resp.emotion = Neutral

\* the raw text without its surrounding blanks, then without its surrounding
\* bracket and quote characters
Stripped(raw) == PyStrip(PyStrip(raw, {" "}), {"[", "]", "'", "\""})

\* C3, amended: a raw label equal to a canonical label is returned as it is, a
\* known short code gives its table value, and a raw text whose stripped form is
\* no canonical label and whose stripped, lowercased form is no known short
\* code gives neutral; the emotion returned is always canonical.
C3_LabelMapping ==
  \A r \in Requests : \A raw \in RawTexts :
    (Inferred(r) /\ RawLabelIs(r, raw) /\ req[r].resp.status = 200) =>
      /\ req[r].resp.emotion \in Canonical
      /\ raw \in Canonical \cup KnownCodes => req[r].resp.emotion = TableEmotion(raw)
      /\ (Stripped(raw) \notin Canonical /\ PyLower(Stripped(raw)) \notin KnownCodes)
           => req[r].resp.emotion = Neutral

C3_Witness ==
  \E r \in Requests :
    /\ Inferred(r)
    /\ RawLabelIs(r, <<"x","y","z">>)
    /\ req[r].resp.status = 200
    /\ req[r].resp.emotion = Neutral

FixedOrder == <<Angry, Happy, Neutral, Sad>>

\* C4: in a successful response scores has exactly the keys angry, happy,
\* neutral and sad; the label at position i of [angry, happy, neutral, sad]
\* gets element i of the classifier's flattened score vector when the vector
\* has one, 0.0 otherwise; elements past the fourth are ignored.
C4_ScoresByPosition ==
  \A r \in Requests :
    (Inferred(r) /\ req[r].resp.status = 200) =>
      /\ DOMAIN req[r].resp.scores = Canonical
      /\ req[r].out[1].out_prob.kind = "tensor" =>
           \A i \in 1..4 :
             req[r].resp.scores[FixedOrder[i]] =
               IF i <= Len(req[r].out[1].out_prob.data)
               THEN req[r].out[1].out_prob.data[i]
               ELSE 0

C4_Witness ==
  \E r \in Requests :
    /\ Inferred(r)
    /\ req[r].resp.status = 200
    /\ req[r].out[1].out_prob.kind = "tensor"
    /\ req[r].out[1].out_prob.data = <<5, 82>>
    /\ req[r].resp.scores[Neutral] = 0

\* C5: raw label "hap", top score 0.82 and score vector [0.82, 0.05, 0.08, 0.05]
\* give emotion happy, confidence 0.82 and scores {angry 0.05, happy 0.82,
\* neutral 0.08, sad 0.05}: the score under the predicted emotion is the top
\* score.
C5_HapScenario ==
  \A r \in Requests :
    ( /\ Inferred(r)
      /\ RawLabelIs(r, <<"h","a","p">>)
      /\ req[r].out[1].score.t = "num"
      /\ req[r].out[1].score.v = 82
      /\ req[r].out[1].out_prob.kind = "tensor"
      /\ req[r].out[1].out_prob.data = <<82, 5, 8, 5>>
      /\ req[r].out[1].out_prob.shape \in {<<4>>, <<1, 4>>} ) =>
      /\ req[r].resp.status = 200
      /\ req[r].resp.emotion = Happy
      /\ req[r].resp.confidence = 82
      /\ req[r].resp.scores = (Angry :> 5 @@ Happy :> 82 @@ Neutral :> 8 @@ Sad :> 5)
      /\ req[r].resp.scores[req[r].resp.emotion] = req[r].resp.confidence

\* a score vector that is absent, not array-like, or does not reduce to a flat
\* sequence
Malformed(out_prob) ==
  \/ out_prob.kind = "other"
  \/ out_prob.kind = "tensor" /\ Len(SelectSeq(out_prob.shape, NotOne)) # 1

\* C6: a score vector that is unavailable or malformed never fails the
\* request: the answer is 200 with the four scores at 0.25.
C6_MalformedVectorUniform ==
  \A r \in Requests :
    ( /\ Inferred(r)
      /\ ~req[r].out[1].raises
      /\ RawLabelIs(r, <<"h","a","p">>)
      /\ req[r].out[1].score.t = "num"
      /\ Malformed(req[r].out[1].out_prob) ) =>
      /\ req[r].resp.status = 200
      /\ \A l \in Canonical : req[r].resp.scores[l] = 25

Brackets ==
  { << <<>>, <<>> >>, << <<"[", "'">>, <<"'", "]">> >>, << <<"[">>, <<"]">> >>,
    << <<"'">>, <<"'">> >>, << <<"\"">>, <<"\"">> >> }

\* the texts that differ from w in letter case or in surrounding bracket and
\* quote characters only
Variants(w) ==
  {b[1] \o c \o b[2] : b \in Brackets, c \in {w, AllUpper(w), Capitalized(w)}}

\* C9: a raw label that differs from a canonical label or a known short code
\* in letter case or in surrounding bracket and quote characters only gives the
\* emotion of that label or code, in each of the three shapes it may arrive in.
C9_CaseAndBracketsIgnored ==
  \A r \in Requests : \A w \in Canonical \cup KnownCodes : \A raw \in Variants(w) :
    (Inferred(r) /\ RawLabelIs(r, raw) /\ req[r].resp.status = 200) =>
      req[r].resp.emotion = TableEmotion(w)

\* C7: with the handle set, an exception raised while reading the upload,
\* writing the file, running inference or normalising the output ends the
\* request with 500 and the detail "Prediction failed: " followed by that
\* exception's message; a request ends as a complete 200 body, a 503 or a 500.
C7_ErrorsBecome500 ==
  \A r \in Requests :
    req[r].pc = "done" =>
      /\ req[r].resp.status \in {200, 503, 500}
      /\ req[r].resp.status = 503 <=> classifier = "None"
      /\ req[r].resp.status = 200 =>
           /\ req[r].resp.emotion \in Canonical
           /\ DOMAIN req[r].resp.scores = Canonical
      /\ req[r].resp.status = 500 => req[r].resp.detail[1] = "Prediction failed: "
      /\ (classifier # "None" /\ req[r].out = <<>>) =>
           /\ req[r].resp.status = 500
           /\ req[r].resp.detail[2] \in
                {"read error", "cannot create file", "No space left on device"}
      /\ (req[r].out # <<>> /\ ~InnerTry(req[r].out[1]).ok) =>
           /\ req[r].resp.status = 500
           /\ req[r].resp.detail = <<"Prediction failed: ", InnerTry(req[r].out[1]).msg>>

\* C10: when inference raises and the deletion of the ephemeral file fails
\* too, the detail of the 500 carries the message of the inference exception,
\* not that of the deletion failure.
C10_UnlinkFailureDoesNotMask ==
  \A r \in Requests :
    (req[r].pc = "done" /\ req[r].out # <<>> /\ req[r].out[1].raises
       /\ req[r].unlinkFailed) =>
      /\ req[r].resp.status = 500
      /\ req[r].resp.detail[2] = req[r].out[1].msg

====
